---------------------------- MODULE Spec2Model ----------------------------
(***************************************************************************)
(* A model of auction_scraper/scrapers/ebay/EbayAuctionScraper.py: the     *)
(* process-wide SimpleCache, the suspending page fetch (_get_page), the    *)
(* embedded-script field extraction (__get_embedded_json), the field       *)
(* normalizers (__get_dict_value, __parse_timestamp, __parse_currency,     *)
(* __get_image_urls) and the auction record assembly                       *)
(* (__parse_auction_soup).                                                 *)
(*                                                                         *)
(* Python strings are sequences of atoms: an atom is one character ("1",   *)
(* "-", the double quote) or an opaque chunk of characters none of which   *)
(* the code inspects ("maxImageUrl", "x1").  Python values are tagged      *)
(* records [kind, val].  An optional value (dict.get) is <<>> when absent  *)
(* and <<v>> when present.                                                 *)
(***************************************************************************)
EXTENDS Integers, Sequences, FiniteSets, TLC

VARIABLES
    cache,      \* SimpleCache._cache: key -> stored artifact
    pc,         \* _get_page: position of each operation
    opUri,      \* _get_page: the uri argument of each operation
    result,     \* _get_page: the tree each operation returned (<<>>: none yet)
    issued,     \* number of session.get requests each operation issued
    prior,      \* history: the tree the last successful call for the same uri
                \* returned, as seen when the operation was called (<<>>: none,
                \* or cache.clear() since)
    lastTree,   \* history: uri -> tree returned by the latest successful call
    nfetch,     \* total number of responses served (orders the fetched trees)
    soup,       \* the document tree handed to the extraction
    jsonOut,    \* outcome of the latest __get_embedded_json call
    jsonDone,   \* history: a call for this soup has returned, no clear since
    jsonParsed, \* parser.parse calls made by the latest __get_embedded_json
    jsonRan,    \* history: jsonDone as it was when the latest call started
    auctionOut, \* outcome of __parse_auction_soup
    dvIn,       \* __get_dict_value: dictionary.get(key) (<<>>: key absent)
    dvDefault,  \* __get_dict_value: the default argument
    dvOut,      \* __get_dict_value: the returned value (<<>>: not called yet)
    imgRaw,     \* __get_image_urls: the raw_values argument
    imgOut      \* __get_image_urls: its outcome (<<>>: not called yet)

vars == <<cache, pc, opUri, result, issued, prior, lastTree, nfetch, soup,
          jsonOut, jsonDone, jsonParsed, jsonRan, auctionOut, dvIn,
          dvDefault, dvOut, imgRaw, imgOut>>

pageVars == <<pc, opUri, result, issued, prior, lastTree, nfetch>>
jsonVars == <<soup, jsonOut, jsonDone, jsonParsed, jsonRan>>
dvVars   == <<dvIn, dvDefault, dvOut>>
imgVars  == <<imgRaw, imgOut>>
nonPageVars == <<jsonVars, auctionOut, dvVars, imgVars>>
nonJsonVars == <<pageVars, auctionOut, dvVars, imgVars>>

-----------------------------------------------------------------------------
(* Bounds of the model *)

NumOps == 3         \* concurrent/sequential _get_page operations
MaxStrLen == 3      \* length of the raw strings given to __get_dict_value
MaxNodes == 5       \* script elements, statements and assignment nodes of a
                    \* document, all together
MaxImages == 2      \* length of the maxImageUrl and displayImgUrl lists
MaxFields == 2      \* fields of the marker call of an auction page

-----------------------------------------------------------------------------
(* SimpleCache *)

EmptyCache == <<>>

\* SimpleCache.get: dict.get(key), None (<<>>) when the key is absent
CacheGet(c, key) == IF key \in DOMAIN c THEN <<c[key]>> ELSE <<>>

\* SimpleCache.set
CacheSet(c, key, value) ==
    [k \in (DOMAIN c) \cup {key} |-> IF k = key THEN value ELSE c[k]]

\* cache_key = f"page:{uri}"
PageKeyShared(uri) == <<"page", "">>
PageKey(uri) == <<"page", uri>>

\* cache_key = f"json:{soup}"
JsonKey(s) == <<"json", s>>

IsPageKey(key) == key[1] = "page"

-----------------------------------------------------------------------------
(* _get_page *)

Ops  == 1..NumOps
Uris == {"u1", "u2"}
\* response.text(): a page with no markup at all, or one with elements
Htmls == {"", "<html>"}

\* BeautifulSoup(html_content, 'html.parser'); n tells the fetches apart
Soup(uri, html, n) == [uri |-> uri, contents |-> html, fetch |-> n]

\* `if cached_content:` -- the truth value of what cache.get returned.  None
\* is false; a BeautifulSoup object is a Tag, whose __bool__ is always True
\* (also when the tree has no contents).
PageHitByContents(got) == got # <<>> /\ got[1].contents # ""
PageHit(got) == got # <<>>

\* Lines 71-75 (everything before the first await), then either the return
\* of the cached tree or the entry into `async with aiohttp.ClientSession()`.
GetPageCall(p, uri) ==
    /\ pc[p] = "idle"
    /\ opUri' = [opUri EXCEPT ![p] = uri]
    /\ prior' = [prior EXCEPT ![p] = lastTree[uri]]
    /\ LET got == CacheGet(cache, PageKey(uri)) IN
         IF PageHit(got)
         THEN /\ pc' = [pc EXCEPT ![p] = "done"]
              /\ result' = [result EXCEPT ![p] = got]
              /\ lastTree' = [lastTree EXCEPT ![uri] = got]
         ELSE /\ pc' = [pc EXCEPT ![p] = "session"]
              /\ UNCHANGED <<result, lastTree>>
    /\ UNCHANGED <<cache, issued, nfetch>>
    /\ UNCHANGED nonPageVars

\* Line 78: session.get(uri) issues the request and suspends.
GetPageRequest(p) ==
    /\ pc[p] = "session"
    /\ pc' = [pc EXCEPT ![p] = "awaiting"]
    /\ issued' = [issued EXCEPT ![p] = @ + 1]
    /\ UNCHANGED <<cache, opUri, result, prior, lastTree, nfetch>>
    /\ UNCHANGED nonPageVars

\* Lines 79-82: the response text arrives; parse, cache.set, return.
GetPageResponse(p, html) ==
    /\ pc[p] = "awaiting"
    /\ LET tree == Soup(opUri[p], html, nfetch + 1) IN
         /\ cache' = CacheSet(cache, PageKey(opUri[p]), tree)
         /\ result' = [result EXCEPT ![p] = <<tree>>]
         /\ lastTree' = [lastTree EXCEPT ![opUri[p]] = <<tree>>]
    /\ nfetch' = nfetch + 1
    /\ pc' = [pc EXCEPT ![p] = "done"]
    /\ UNCHANGED <<opUri, issued, prior>>
    /\ UNCHANGED nonPageVars

\* Lines 78-79: the transport fails; the exception ends the operation.
GetPageFail(p) ==
    /\ pc[p] = "awaiting"
    /\ pc' = [pc EXCEPT ![p] = "failed"]
    /\ UNCHANGED <<cache, opUri, result, issued, prior, lastTree, nfetch>>
    /\ UNCHANGED nonPageVars

\* SimpleCache.clear
CacheClear ==
    /\ cache # EmptyCache
    /\ cache' = EmptyCache
    /\ lastTree' = [u \in Uris |-> <<>>]
    /\ jsonDone' = FALSE
    /\ UNCHANGED <<pc, opUri, result, issued, prior, nfetch>>
    /\ UNCHANGED <<soup, jsonOut, jsonParsed, jsonRan>>
    /\ UNCHANGED <<auctionOut, dvVars, imgVars>>

PageInit ==
    /\ pc = [p \in Ops |-> "idle"]
    /\ opUri = [p \in Ops |-> "u1"]
    /\ result = [p \in Ops |-> <<>>]
    /\ issued = [p \in Ops |-> 0]
    /\ prior = [p \in Ops |-> <<>>]
    /\ lastTree = [u \in Uris |-> <<>>]
    /\ nfetch = 0

-----------------------------------------------------------------------------
(* Python values and strings *)

PyNone     == [kind |-> "None"]
PyBool(b)  == [kind |-> "bool", val |-> b]
PyInt(n)   == [kind |-> "int", val |-> n]
\* a float read from a decimal literal: val = <<m, k>> stands for m / 10^k,
\* with k as small as possible
PyFloat(m, k) == [kind |-> "float", val |-> <<m, k>>]
PyStr(s)   == [kind |-> "str", val |-> s]
PyList(l)  == [kind |-> "list", val |-> l]

Q == "\""                       \* the double-quote character
StrTrue  == <<"t", "r", "u", "e">>
StrFalse == <<"f", "a", "l", "s", "e">>
StrNull  == <<"n", "u", "l", "l">>

Digits == {"0", "1", "2", "3", "4", "5", "6", "7", "8", "9"}
DigitVal(c) ==
    CASE c = "0" -> 0 [] c = "1" -> 1 [] c = "2" -> 2 [] c = "3" -> 3
      [] c = "4" -> 4 [] c = "5" -> 5 [] c = "6" -> 6 [] c = "7" -> 7
      [] c = "8" -> 8 [] c = "9" -> 9

RECURSIVE LStrip(_, _)
LStrip(s, c) == IF s # <<>> /\ Head(s) = c THEN LStrip(Tail(s), c) ELSE s

RECURSIVE RStrip(_, _)
RStrip(s, c) ==
    IF s # <<>> /\ s[Len(s)] = c THEN RStrip(SubSeq(s, 1, Len(s) - 1), c) ELSE s

\* str.strip(c): every leading and trailing occurrence of c removed
Strip(s, c) == RStrip(LStrip(s, c), c)

\* The digits of a numeral read left to right: <<ok, value, count>>
RECURSIVE ReadDigits(_, _, _)
ReadDigits(s, acc, n) ==
    IF s = <<>> THEN <<TRUE, acc, n>>
    ELSE IF Head(s) \in Digits
         THEN ReadDigits(Tail(s), acc * 10 + DigitVal(Head(s)), n + 1)
         ELSE <<FALSE, 0, 0>>

\* The sign of a numeral: <<sign, rest>>
ReadSign(s) ==
    IF s # <<>> /\ Head(s) = "-" THEN <<-1, Tail(s)>>
    ELSE IF s # <<>> /\ Head(s) = "+" THEN <<1, Tail(s)>>
    ELSE <<1, s>>

\* int(str): surrounding blanks dropped, an optional sign, one or more
\* digits.  <<n>>, or <<>> for ValueError.
StrToInt(s) ==
    LET sg == ReadSign(Strip(s, " "))
        d  == ReadDigits(sg[2], 0, 0)
    IN IF d[1] /\ d[3] > 0 THEN <<sg[1] * d[2]>> ELSE <<>>

RECURSIVE DropZeros(_, _)
DropZeros(m, k) ==
    IF k > 0 /\ m % 10 = 0 THEN DropZeros(m \div 10, k - 1) ELSE <<m, k>>

\* position of the first "." of s, 0 if there is none
RECURSIVE DotAt(_, _)
DotAt(s, i) ==
    IF i > Len(s) THEN 0 ELSE IF s[i] = "." THEN i ELSE DotAt(s, i + 1)

\* float(str) on decimal literals: surrounding blanks dropped, an optional
\* sign, digits with at most one "." and at least one digit.  <<m, k>>
\* wrapped in a sequence, or <<>> for ValueError.
StrToFloat(s) ==
    LET sg   == ReadSign(Strip(s, " "))
        body == sg[2]
        dot  == DotAt(body, 1)
        ip   == IF dot = 0 THEN body ELSE SubSeq(body, 1, dot - 1)
        fp   == IF dot = 0 THEN <<>> ELSE SubSeq(body, dot + 1, Len(body))
        d    == ReadDigits(ip \o fp, 0, 0)
    IN IF d[1] /\ d[3] > 0
       THEN <<DropZeros(sg[1] * d[2], Len(fp))>>
       ELSE <<>>

-----------------------------------------------------------------------------
(* __get_dict_value *)

\* int(value) for a string, an int (a default) or a list: <<n>>, or <<>>
\* for ValueError / TypeError
TryInt(value) ==
    CASE value.kind = "str"   -> StrToInt(value.val)
      [] value.kind = "int"   -> <<value.val>>
      [] OTHER                -> <<>>

\* float(value) for a string or a list: <<<<m, k>>>>, or <<>> for
\* ValueError / TypeError
TryFloat(value) ==
    CASE value.kind = "str"   -> StrToFloat(value.val)
      [] OTHER                -> <<>>

\* dictionary.get(key, default), the dictionary entry given as an option
DictGet(entry, default) == IF entry = <<>> THEN default ELSE entry[1]

\* a plausible slip: the float attempt left out
GetDictValueNoFloat(entry, default) ==
    LET value == DictGet(entry, default) IN
    IF value = PyStr(StrTrue) THEN PyBool(TRUE)
    ELSE IF value = PyStr(StrFalse) THEN PyBool(FALSE)
    ELSE IF value \in {PyStr(StrNull), PyNone} THEN PyNone
    ELSE IF TryInt(value) # <<>> THEN PyInt(TryInt(value)[1])
    ELSE value

__get_dict_value(entry, default) ==
    LET value == DictGet(entry, default) IN
    IF value = PyStr(StrTrue) THEN PyBool(TRUE)
    ELSE IF value = PyStr(StrFalse) THEN PyBool(FALSE)
    ELSE IF value \in {PyStr(StrNull), PyNone} THEN PyNone
    ELSE IF TryInt(value) # <<>> THEN PyInt(TryInt(value)[1])
    ELSE IF TryFloat(value) # <<>>
         THEN PyFloat(TryFloat(value)[1][1], TryFloat(value)[1][2])
    ELSE value

\* every sequence over A of length at most n
SeqsUpTo(A, n) == UNION {[1..k -> A] : k \in 0..n}

\* the characters int() and float() tell apart, and one they reject
NumAlphabet == {"0", "1", ".", "-", "+", " ", "x"}

DvStrings ==
    SeqsUpTo(NumAlphabet, MaxStrLen)
        \cup {StrTrue, StrFalse, StrNull, StrTrue \o <<"x">>,
              <<"T", "r", "u", "e">>, <<"x1">>}

\* dictionary.get(key): absent, a raw string, or the list of a multi-valued key
DvEntries ==
    {<<>>} \cup {<<PyStr(str)>> : str \in DvStrings}
           \cup {<<PyList(<<>>)>>, <<PyList(<<StrTrue>>)>>}

\* the defaults the callers pass (lines 133-140)
DvDefaults == {PyNone, PyInt(0), PyInt(1)}

DvInit ==
    /\ dvIn \in DvEntries
    /\ dvDefault \in DvDefaults
    /\ dvOut = <<>>

\* one call of __get_dict_value(dictionary, key, default)
DvCall ==
    /\ dvOut = <<>>
    /\ dvOut' = <<__get_dict_value(dvIn, dvDefault)>>
    /\ UNCHANGED <<dvIn, dvDefault>>
    /\ UNCHANGED <<cache, pageVars, jsonVars, auctionOut, imgVars>>

\* no __get_dict_value call is under way
DvQuiet == dvIn = <<>> /\ dvDefault = PyNone /\ dvOut = <<>>

-----------------------------------------------------------------------------
(* The document tree and the script syntax trees *)

\* A slimit node as far as the extraction reads it: its class and, for the
\* classes that have one, its `value` attribute.
Node(type, value) == [type |-> type, value |-> value]

Marker == <<"$rwidgets">>
MarkerCallee == Node("Identifier", Marker)
OtherCallee  == Node("Identifier", <<"foo">>)
\* foo.bar(...): the callee is a DotAccessor, which has no `value`
DotCallee    == Node("DotAccessor", <<>>)

\* Identifier, String and Number carry their source text in `value`
HasTextValue(n) == n.type \in {"Identifier", "String", "Number"}
\* UnaryOp (-1, !0) has a `value` too, but it is the operand node
HasNodeValue(n) == n.type = "UnaryOp"

Assign(left, right) == [left |-> left, right |-> right]

\* A statement of a script: a call with the Assign nodes of its arguments, or
\* any other statement with the Assign nodes it contains.
Stmt(type, identifier, args) ==
    [type |-> type, identifier |-> identifier, args |-> args]

\* A script element: "src" has a src attribute, "plain" is inline without
\* the marker text, "bad" holds the marker text and is not a valid script,
\* "ok" holds the marker text and parses into stmts.
Script(kind, stmts) == [kind |-> kind, stmts |-> stmts]
ScriptKinds == {"src", "plain", "bad", "ok"}

\* The document: its script elements in document order, the text of the
\* iframe inside div#desc_div and of div.vi_descsnpt_holder (<<>>: no such
\* element).
Document(scripts, iframe, holder) ==
    [scripts |-> scripts, iframe |-> iframe, holder |-> holder]

\* auction_duplicates
auction_duplicates == {<<"maxImageUrl">>, <<"displayImgUrl">>}

-----------------------------------------------------------------------------
(* __get_embedded_json *)

\* a dict as a function; d[k] = v
DictSet(d, k, v) == [x \in (DOMAIN d) \cup {k} |-> IF x = k THEN v ELSE d[x]]
DictGetOpt(d, k) == IF k \in DOMAIN d THEN <<d[k]>> ELSE <<>>
EmptyDict == <<>>

\* getattr(node, 'value', '')
ValueOrEmpty(n) == IF HasTextValue(n) THEN n.value ELSE <<>>

\* Lines 168-174 for the Assign nodes args[i..]: the fields dict, wrapped in
\* a sequence, or <<>> when .strip is called on a node (AttributeError).
RECURSIVE CallFields(_, _, _)
CallFields(args, i, fields) ==
    IF i > Len(args) THEN <<fields>>
    ELSE IF HasNodeValue(args[i].left) \/ HasNodeValue(args[i].right) THEN <<>>
    ELSE LET k == Strip(ValueOrEmpty(args[i].left), Q)
             v == Strip(ValueOrEmpty(args[i].right), Q)
         IN IF k \in auction_duplicates
            THEN CallFields(args, i + 1,
                    DictSet(fields, k,
                        PyList((IF k \in DOMAIN fields THEN fields[k].val
                                ELSE <<>>) \o <<v>>)))
            ELSE CallFields(args, i + 1, DictSet(fields, k, PyStr(v)))

\* a plausible slip: every key overwritten on merge
MergeFieldsOverwrite(raw_values, fields) ==
    [k \in (DOMAIN raw_values) \cup (DOMAIN fields) |->
        IF k \in DOMAIN fields THEN fields[k] ELSE raw_values[k]]

\* Lines 175-179: merge one call's fields into raw_values
MergeFields(raw_values, fields) ==
    [k \in (DOMAIN raw_values) \cup (DOMAIN fields) |->
        IF k \in DOMAIN fields
        THEN IF k \in auction_duplicates
             THEN PyList((IF k \in DOMAIN raw_values THEN raw_values[k].val
                          ELSE <<>>) \o fields[k].val)
             ELSE fields[k]
        ELSE raw_values[k]]

Raise(exc) == [kind |-> "raise", exc |-> exc]
Return(v)  == [kind |-> "ok", val |-> v]

\* Lines 164-179 for the statements stmts[i..] of one parsed script
RECURSIVE WalkTree(_, _, _)
WalkTree(stmts, i, raw_values) ==
    IF i > Len(stmts) THEN Return(raw_values)
    ELSE IF stmts[i].type # "FunctionCall"
         THEN WalkTree(stmts, i + 1, raw_values)
    \* node.identifier.value
    ELSE IF ~(HasTextValue(stmts[i].identifier)
              \/ HasNodeValue(stmts[i].identifier))
         THEN Raise("AttributeError")
    ELSE IF stmts[i].identifier.value # Marker
         THEN WalkTree(stmts, i + 1, raw_values)
    ELSE LET fields == CallFields(stmts[i].args, 1, EmptyDict) IN
         IF fields = <<>> THEN Raise("AttributeError")
         ELSE WalkTree(stmts, i + 1, MergeFields(raw_values, fields[1]))

\* Lines 160-179 for the script elements scripts[i..]; n counts the
\* parser.parse calls.  The outcome with the count.
RECURSIVE WalkScripts(_, _, _, _)
WalkScripts(scripts, i, raw_values, n) ==
    IF i > Len(scripts) THEN [out |-> Return(raw_values), parsed |-> n]
    ELSE IF scripts[i].kind \in {"src", "plain"}
         THEN WalkScripts(scripts, i + 1, raw_values, n)
    ELSE IF scripts[i].kind = "bad"
         THEN [out |-> Raise("SyntaxError"), parsed |-> n + 1]
    ELSE LET w == WalkTree(scripts[i].stmts, 1, raw_values) IN
         IF w.kind = "raise" THEN [out |-> w, parsed |-> n + 1]
         ELSE WalkScripts(scripts, i + 1, w.val, n + 1)

\* `if cached_data:` -- None is false, and so is an empty dict
JsonHit(got) == got # <<>> /\ DOMAIN got[1] # {}

\* __get_embedded_json(soup) on cache c: the outcome, the number of
\* parser.parse calls and the cache afterwards
__get_embedded_json(c, s) ==
    LET got == CacheGet(c, JsonKey(s)) IN
    IF JsonHit(got)
    THEN [out |-> Return(got[1]), parsed |-> 0, cache |-> c]
    ELSE LET w == WalkScripts(s.scripts, 1, EmptyDict, 0) IN
         [out |-> w.out, parsed |-> w.parsed,
          cache |-> IF w.out.kind = "ok"
                    THEN CacheSet(c, JsonKey(s), w.out.val) ELSE c]

-----------------------------------------------------------------------------
(* __get_image_urls *)

BS == "\\"                      \* the backslash character
\* characters json.loads rejects unescaped inside a string
ControlChars == {"\n", "\t", "\r", "\f", "<backspace>"}
HexDigits == Digits \cup {"A", "B", "C", "D", "E", "F"}
HexVal(c) ==
    CASE c \in Digits -> DigitVal(c)
      [] c = "A" -> 10 [] c = "B" -> 11 [] c = "C" -> 12
      [] c = "D" -> 13 [] c = "E" -> 14 [] c = "F" -> 15

\* chr(n) for the code points of the URL punctuation; any other code point
\* is kept apart from these as one atom
CodeChar(n) ==
    CASE n = 47 -> "/" [] n = 58 -> ":" [] n = 38 -> "&" [] OTHER -> "<chr>"

\* the character a JSON escape \c stands for (c not "u"), <<>> if invalid
EscapeChar(c) ==
    CASE c = Q -> <<Q>> [] c = BS -> <<BS>> [] c = "/" -> <<"/">>
      [] c = "n" -> <<"\n">> [] c = "t" -> <<"\t">> [] c = "r" -> <<"\r">>
      [] c = "f" -> <<"\f">> [] c = "b" -> <<"<backspace>">>
      [] OTHER -> <<>>

\* json.loads('"' + s + '"') scanning s: <<decoded>>, or <<>> for
\* JSONDecodeError (a quote inside s ends the string early, a backslash
\* must start a valid escape, control characters are refused).
RECURSIVE JsonLoadsQuoted(_, _)
JsonLoadsQuoted(s, acc) ==
    IF s = <<>> THEN <<acc>>
    ELSE IF Head(s) = Q \/ Head(s) \in ControlChars THEN <<>>
    ELSE IF Head(s) # BS THEN JsonLoadsQuoted(Tail(s), Append(acc, Head(s)))
    ELSE IF Len(s) < 2 THEN <<>>
    ELSE IF s[2] = "u"
         THEN IF Len(s) >= 6 /\ \A i \in 3..6 : s[i] \in HexDigits
              THEN JsonLoadsQuoted(SubSeq(s, 7, Len(s)),
                      Append(acc, CodeChar(HexVal(s[3]) * 4096
                          + HexVal(s[4]) * 256 + HexVal(s[5]) * 16
                          + HexVal(s[6]))))
              ELSE <<>>
    ELSE IF EscapeChar(s[2]) = <<>> THEN <<>>
    ELSE JsonLoadsQuoted(SubSeq(s, 3, Len(s)), acc \o EscapeChar(s[2]))

Min(a, b) == IF a < b THEN a ELSE b

\* a plausible slip: the fallback taken when the primary is empty, not "null"
ImageChoicePreferNonEmpty(max_img, disp_img) ==
    IF max_img # <<>> THEN max_img ELSE disp_img

\* max_img if max_img != "null" else disp_img
ImageChoice(max_img, disp_img) ==
    IF max_img # StrNull THEN max_img ELSE disp_img

\* Lines 187-190 for the zipped positions i..n: the decoded list wrapped in
\* a sequence, or <<>> when json.loads raises
RECURSIVE ImageUrlsFrom(_, _, _, _, _)
ImageUrlsFrom(max_images, display_images, i, n, acc) ==
    IF i > n THEN <<acc>>
    \* if max_img or disp_img
    ELSE IF max_images[i] = <<>> /\ display_images[i] = <<>>
         THEN ImageUrlsFrom(max_images, display_images, i + 1, n, acc)
    ELSE LET u == JsonLoadsQuoted(
                      ImageChoice(max_images[i], display_images[i]), <<>>)
         IN IF u = <<>> THEN <<>>
            ELSE ImageUrlsFrom(max_images, display_images, i + 1, n,
                               Append(acc, u[1]))

\* __get_image_urls(raw_values)
__get_image_urls(raw_values) ==
    LET max_images == DictGet(DictGetOpt(raw_values, <<"maxImageUrl">>),
                              PyList(<<>>)).val
        display_images == DictGet(DictGetOpt(raw_values, <<"displayImgUrl">>),
                                  PyList(<<>>)).val
        r == ImageUrlsFrom(max_images, display_images, 1,
                           Min(Len(max_images), Len(display_images)), <<>>)
    IN IF r = <<>> THEN Raise("JSONDecodeError") ELSE Return(r[1])

\* the raw image values: empty, "null", a plain URL, a URL with escaped
\* slashes, a \u escape, and a backslash that starts no JSON escape
ImgValues ==
    {<<>>, StrNull, <<"url1">>, <<"url2">>, <<"http:", BS, "/", BS, "/", "h">>,
     <<BS, "u", "0", "0", "2", "F">>, <<BS, "x", "4", "1">>}

ImgLists == SeqsUpTo(ImgValues, MaxImages)

\* a raw_values dict holding the given optional lists
ImgDict(maxOpt, dispOpt) ==
    [k \in (IF maxOpt = <<>> THEN {} ELSE {<<"maxImageUrl">>})
           \cup (IF dispOpt = <<>> THEN {} ELSE {<<"displayImgUrl">>})
        |-> IF k = <<"maxImageUrl">> THEN PyList(maxOpt[1])
            ELSE PyList(dispOpt[1])]

ImgOptions == {<<>>} \cup {<<l>> : l \in ImgLists}

ImgInit ==
    /\ imgRaw \in {ImgDict(m, d) : m \in ImgOptions, d \in ImgOptions}
    /\ imgOut = <<>>

\* one call of __get_image_urls(raw_values)
ImgCall ==
    /\ imgOut = <<>>
    /\ imgOut' = <<__get_image_urls(imgRaw)>>
    /\ UNCHANGED imgRaw
    /\ UNCHANGED <<cache, pageVars, jsonVars, auctionOut, dvVars>>

\* no __get_image_urls call is under way
ImgQuiet == imgRaw = EmptyDict /\ imgOut = <<>>

-----------------------------------------------------------------------------
(* __parse_timestamp, __parse_currency, __extract_description, NFKD *)

\* datetime.utcfromtimestamp(ms / 1000): seconds and microseconds since the
\* epoch
PyDatetime(ms) ==
    [kind |-> "datetime", val |-> <<ms \div 1000, (ms % 1000) * 1000>>]

\* __parse_timestamp(raw_values.get(key)): int(None) is a TypeError and
\* int of a non-numeral a ValueError, both caught
__parse_timestamp(entry) ==
    LET n == IF entry = <<>> THEN <<>> ELSE TryInt(entry[1]) IN
    IF n = <<>> THEN PyNone ELSE PyDatetime(n[1])

\* codes the currency validator knows
CurrencyCodes == {<<"USD">>, <<"EUR">>, <<"GBP">>}

\* __parse_currency(raw_values.get('ccode')): Currency(None) is a TypeError
\* and an unknown code a ValueError, both caught
__parse_currency(entry) ==
    IF entry # <<>> /\ entry[1].kind = "str" /\ entry[1].val \in CurrencyCodes
    THEN [kind |-> "Currency", val |-> entry[1].val]
    ELSE PyNone

\* __extract_description(soup)
__extract_description(s) ==
    IF s.iframe # <<>> THEN s.iframe[1]
    ELSE IF s.holder # <<>> THEN s.holder[1]
    ELSE <<>>

\* the compatibility decomposition of one character
Decompose(c) ==
    CASE c = "e-acute" -> <<"e", "combining-acute">>
      [] c = "fi-ligature" -> <<"f", "i">>
      [] OTHER -> <<c>>

\* unicodedata.normalize("NFKD", text)
RECURSIVE NFKD(_)
NFKD(text) == IF text = <<>> THEN <<>> ELSE Decompose(Head(text)) \o NFKD(Tail(text))

\* ' '.join(parts)
RECURSIVE Join(_)
Join(parts) ==
    IF parts = <<>> THEN <<>>
    ELSE IF Len(parts) = 1 THEN parts[1]
    ELSE parts[1] \o <<" ">> \o Join(Tail(parts))

-----------------------------------------------------------------------------
(* __parse_auction_soup *)

\* raw_values.get(key, default) for a text default, as text
TextOr(raw_values, key, default) ==
    DictGet(DictGetOpt(raw_values, key), PyStr(default)).val

\* Lines 126-145 on the extracted raw_values
AssembleAuction(raw_values, s) ==
    LET id   == TryInt(DictGet(DictGetOpt(raw_values, <<"itemId">>), PyInt(0)))
        imgs == __get_image_urls(raw_values)
    IN IF id = <<>> THEN Raise("ValueError")
       ELSE IF imgs.kind = "raise" THEN imgs
       ELSE Return(
        [id |-> id[1],
         title |-> NFKD(TextOr(raw_values, <<"it">>, <<>>)),
         description |-> __extract_description(s),
         seller_id |-> TextOr(raw_values, <<"entityName">>, <<>>),
         start_time |-> __parse_timestamp(DictGetOpt(raw_values, <<"startTime">>)),
         end_time |-> __parse_timestamp(DictGetOpt(raw_values, <<"endTime">>)),
         n_bids |-> __get_dict_value(DictGetOpt(raw_values, <<"bids">>), PyInt(0)),
         currency |-> __parse_currency(DictGetOpt(raw_values, <<"ccode">>)),
         latest_price |->
            __get_dict_value(DictGetOpt(raw_values, <<"bidPriceDouble">>), PyNone),
         buy_now_price |->
            __get_dict_value(DictGetOpt(raw_values, <<"binPriceDouble">>), PyNone),
         image_urls |-> Join(imgs.val),
         locale |-> TextOr(raw_values, <<"locale">>, <<>>),
         quantity |->
            __get_dict_value(DictGetOpt(raw_values, <<"totalQty">>), PyInt(1)),
         video_url |-> TextOr(raw_values, <<"videoUrl">>, <<>>),
         vat_included |->
            DictGetOpt(raw_values, <<"vatIncluded">>) = <<PyStr(StrTrue)>>,
         domain |-> TextOr(raw_values, <<"currentDomain">>, <<>>)])

\* __parse_auction_soup(soup) on cache c: the outcome and the cache afterwards
__parse_auction_soup(c, s) ==
    LET j == __get_embedded_json(c, s) IN
    [out |-> IF j.out.kind = "raise" THEN j.out
             ELSE AssembleAuction(j.out.val, s),
     cache |-> j.cache]

-----------------------------------------------------------------------------
(* The pages handed to __get_embedded_json, and its calls *)

EmptyDocument == Document(<<>>, <<>>, <<>>)

JsonInit ==
    /\ soup = EmptyDocument
    /\ jsonOut = <<>>
    /\ jsonDone = FALSE
    /\ jsonParsed = 0
    /\ jsonRan = FALSE

RECURSIVE StmtsIn(_)
StmtsIn(scripts) ==
    IF scripts = <<>> THEN 0
    ELSE Len(Head(scripts).stmts) + StmtsIn(Tail(scripts))

RECURSIVE ArgsIn(_)
ArgsIn(stmts) ==
    IF stmts = <<>> THEN 0 ELSE Len(Head(stmts).args) + ArgsIn(Tail(stmts))

RECURSIVE AssignsIn(_)
AssignsIn(scripts) ==
    IF scripts = <<>> THEN 0
    ELSE ArgsIn(Head(scripts).stmts) + AssignsIn(Tail(scripts))

NumStmts(s) == StmtsIn(s.scripts)
NumAssigns(s) == AssignsIn(s.scripts)
NumNodes(s) == Len(s.scripts) + NumStmts(s) + NumAssigns(s)

\* the assignment nodes met in the scripts: "maxImageUrl": "x1" and
\* "maxImageUrl": "x2", "it": "x1", it: "x2", a.b = "x1" (the left operand
\* has no `value`) and "it": -1 (the right operand's `value` is a node)
Assigns ==
    {Assign(Node("String", <<Q, "maxImageUrl", Q>>), Node("String", <<Q, "x1", Q>>)),
     Assign(Node("String", <<Q, "maxImageUrl", Q>>), Node("String", <<Q, "x2", Q>>)),
     Assign(Node("String", <<Q, "it", Q>>), Node("String", <<Q, "x1", Q>>)),
     Assign(Node("Identifier", <<"it">>), Node("String", <<Q, "x2", Q>>)),
     Assign(Node("DotAccessor", <<>>), Node("String", <<Q, "x1", Q>>)),
     Assign(Node("String", <<Q, "it", Q>>), Node("UnaryOp", <<>>))}

StmtHeads ==
    {Stmt("FunctionCall", c, <<>>) : c \in {MarkerCallee, OtherCallee, DotCallee}}
        \cup {Stmt("ExprStatement", Node("None", <<>>), <<>>)}

\* the page gains a script element
AddScript(kind) ==
    /\ jsonOut = <<>>
    /\ NumNodes(soup) < MaxNodes
    /\ soup' = [soup EXCEPT !.scripts = Append(@, Script(kind, <<>>))]
    /\ UNCHANGED <<cache, jsonOut, jsonDone, jsonParsed, jsonRan>>
    /\ UNCHANGED nonJsonVars

\* the last script, which parses, gains a statement
AddStmt(st) ==
    /\ jsonOut = <<>>
    /\ soup.scripts # <<>>
    /\ soup.scripts[Len(soup.scripts)].kind = "ok"
    /\ NumNodes(soup) < MaxNodes
    /\ soup' = [soup EXCEPT !.scripts[Len(soup.scripts)].stmts = Append(@, st)]
    /\ UNCHANGED <<cache, jsonOut, jsonDone, jsonParsed, jsonRan>>
    /\ UNCHANGED nonJsonVars

\* the last statement gains an assignment node
AddAssign(a) ==
    /\ jsonOut = <<>>
    /\ soup.scripts # <<>>
    /\ soup.scripts[Len(soup.scripts)].stmts # <<>>
    /\ NumNodes(soup) < MaxNodes
    /\ LET i == Len(soup.scripts)
           j == Len(soup.scripts[i].stmts)
       IN soup' = [soup EXCEPT !.scripts[i].stmts[j].args =
                                   Append(@, a)]
    /\ UNCHANGED <<cache, jsonOut, jsonDone, jsonParsed, jsonRan>>
    /\ UNCHANGED nonJsonVars

\* one call of __get_embedded_json(soup)
JsonCall ==
    /\ LET r == __get_embedded_json(cache, soup) IN
         /\ cache' = r.cache
         /\ jsonOut' = <<r.out>>
         /\ jsonParsed' = r.parsed
         /\ jsonDone' = (jsonDone \/ r.out.kind = "ok")
    /\ jsonRan' = jsonDone
    /\ UNCHANGED soup
    /\ UNCHANGED nonJsonVars

-----------------------------------------------------------------------------
(* The auction pages handed to __parse_auction_soup, and its call *)

\* a page whose one script holds one marker call
AuctionDocument ==
    Document(<<Script("ok", <<Stmt("FunctionCall", MarkerCallee, <<>>)>>)>>,
             <<>>, <<>>)

\* the field names __parse_auction_soup reads
AuctionKeys ==
    {<<"itemId">>, <<"it">>, <<"entityName">>, <<"startTime">>, <<"endTime">>,
     <<"bids">>, <<"ccode">>, <<"bidPriceDouble">>, <<"binPriceDouble">>,
     <<"maxImageUrl">>, <<"displayImgUrl">>, <<"locale">>, <<"totalQty">>,
     <<"videoUrl">>, <<"vatIncluded">>, <<"currentDomain">>}

\* the raw field values: numerals, words, a currency code, a text with a
\* composed accent, and a backslash that starts no JSON escape
AuctionValues ==
    {<<"1", "2">>, <<"1", ".", "5">>, <<"abc">>, StrNull, StrTrue, <<"USD">>,
     <<"caf", "e-acute">>, <<BS, "x", "4", "1">>}

DescTexts == {<<>>, <<<<"desc">>>>}

\* the marker call gains the property key: "value"
AddField(key, value) ==
    /\ auctionOut = <<>>
    /\ NumAssigns(soup) < MaxFields
    /\ soup' = [soup EXCEPT !.scripts[1].stmts[1].args =
                    Append(@, Assign(Node("String", <<Q>> \o key \o <<Q>>),
                                     Node("String", <<Q>> \o value \o <<Q>>)))]
    /\ UNCHANGED <<cache, pageVars, jsonOut, jsonDone, jsonParsed, jsonRan,
                   auctionOut, dvVars, imgVars>>

\* the page gains its description elements
SetDescription(iframe, holder) ==
    /\ auctionOut = <<>>
    /\ soup.iframe = <<>> /\ soup.holder = <<>>
    /\ iframe # <<>> \/ holder # <<>>
    /\ soup' = [soup EXCEPT !.iframe = iframe, !.holder = holder]
    /\ UNCHANGED <<cache, pageVars, jsonOut, jsonDone, jsonParsed, jsonRan,
                   auctionOut, dvVars, imgVars>>

\* one call of __parse_auction_soup(soup)
ParseAuction ==
    /\ auctionOut = <<>>
    /\ LET r == __parse_auction_soup(cache, soup) IN
         /\ cache' = r.cache
         /\ auctionOut' = <<r.out>>
    /\ UNCHANGED <<pageVars, jsonVars, dvVars, imgVars>>

-----------------------------------------------------------------------------
(* Specifications *)

\* concurrent _get_page operations on the shared cache
InitPage ==
    /\ cache = EmptyCache /\ PageInit /\ JsonInit /\ auctionOut = <<>>
    /\ DvQuiet /\ ImgQuiet
NextPage ==
    \/ \E p \in Ops, uri \in Uris : GetPageCall(p, uri)
    \/ \E p \in Ops : GetPageRequest(p)
    \/ \E p \in Ops, html \in Htmls : GetPageResponse(p, html)
    \/ \E p \in Ops : GetPageFail(p)
    \/ CacheClear
Spec == InitPage /\ [][NextPage]_vars

\* __get_embedded_json on the pages the bounds allow
InitJson == InitPage
NextJson ==
    \/ \E kind \in ScriptKinds : AddScript(kind)
    \/ \E st \in StmtHeads : AddStmt(st)
    \/ \E a \in Assigns : AddAssign(a)
    \/ JsonCall
    \/ CacheClear
SpecJson == InitJson /\ [][NextJson]_vars

\* __parse_auction_soup on the auction pages the bounds allow
InitAuction ==
    /\ cache = EmptyCache /\ PageInit /\ auctionOut = <<>>
    /\ soup = AuctionDocument /\ jsonOut = <<>> /\ jsonDone = FALSE
    /\ jsonParsed = 0 /\ jsonRan = FALSE
    /\ DvQuiet /\ ImgQuiet
NextAuction ==
    \/ \E key \in AuctionKeys, value \in AuctionValues : AddField(key, value)
    \/ \E iframe \in DescTexts, holder \in DescTexts :
           SetDescription(iframe, holder)
    \/ ParseAuction
SpecAuction == InitAuction /\ [][NextAuction]_vars

\* __get_dict_value on every raw value of the pool
InitDictValue ==
    /\ cache = EmptyCache /\ PageInit /\ JsonInit /\ auctionOut = <<>>
    /\ DvInit /\ ImgQuiet
SpecDictValue == InitDictValue /\ [][DvCall]_vars

\* __get_image_urls on every pair of lists of the pool
InitImageUrls ==
    /\ cache = EmptyCache /\ PageInit /\ JsonInit /\ auctionOut = <<>>
    /\ DvQuiet /\ ImgInit
SpecImageUrls == InitImageUrls /\ [][ImgCall]_vars

-----------------------------------------------------------------------------
(* Properties of _get_page and the cache (under Spec) *)

\* the requests issued for uri, over all operations called with it
RECURSIVE FetchesUpTo(_, _)
FetchesUpTo(uri, n) ==
    IF n = 0 THEN 0
    ELSE (IF pc[n] # "idle" /\ opUri[n] = uri THEN issued[n] ELSE 0)
             + FetchesUpTo(uri, n - 1)
Fetches(uri) == FetchesUpTo(uri, NumOps)

Requested(uri) == {p \in Ops : pc[p] # "idle" /\ opUri[p] = uri}

\* C1: a _get_page call made after a successful call for the same URI
\* returned, with no cache.clear() in between, returns the tree that call
\* returned and issues no request; a call made with no such predecessor
\* issues exactly one request by the time it returns.  So two sequential
\* calls for one URI issue exactly one request together.
C1_SecondCallHitsCache ==
    \A p \in Ops :
        /\ prior[p] # <<>> =>
              pc[p] = "done" /\ result[p] = prior[p] /\ issued[p] = 0
        /\ (pc[p] = "done" /\ prior[p] = <<>>) => issued[p] = 1

\* a second call served the cached tree of a page without any markup
C1_Witness ==
    \E p, q \in Ops :
        /\ p # q /\ pc[p] = "done" /\ pc[q] = "done"
        /\ issued[p] = 1 /\ issued[q] = 0
        /\ prior[q] = result[p] /\ result[q] = result[p]
        /\ result[p][1].contents = ""

\* C7: under every interleaving of the operations, each returned tree was
\* fetched for the operation's own URI, each page entry of the cache holds
\* a tree of its key's URI, and the requests issued for a URI number at
\* most the operations called with it and at least one once an operation
\* for it has returned.
C7_BenignCacheRace ==
    /\ \A p \in Ops :
          pc[p] = "done" => result[p] # <<>> /\ result[p][1].uri = opUri[p]
    /\ \A key \in DOMAIN cache :
          IsPageKey(key) => cache[key].uri = key[2]
    /\ \A uri \in Uris :
          /\ Fetches(uri) <= Cardinality(Requested(uri))
          /\ (\E p \in Requested(uri) : pc[p] = "done") => Fetches(uri) >= 1

\* two operations both fetched the same URI (the duplicate work of the
\* race) and both returned, each its own tree
C7_Witness ==
    \E p, q \in Ops :
        /\ p # q /\ opUri[p] = opUri[q]
        /\ pc[p] = "done" /\ pc[q] = "done"
        /\ issued[p] = 1 /\ issued[q] = 1
        /\ result[p] # result[q]

-----------------------------------------------------------------------------
(* Properties of __get_dict_value (under SpecDictValue) *)

IsBlank(c) == c = " "

\* s with its surrounding blanks removed: the one infix of s that neither
\* starts nor ends with a blank and has only blanks around it
Trimmed(s) ==
    IF \A i \in 1..Len(s) : IsBlank(s[i]) THEN <<>>
    ELSE LET a == CHOOSE i \in 1..Len(s) :
                    ~IsBlank(s[i]) /\ \A j \in 1..(i - 1) : IsBlank(s[j])
             b == CHOOSE i \in 1..Len(s) :
                    ~IsBlank(s[i]) /\ \A j \in (i + 1)..Len(s) : IsBlank(s[j])
         IN SubSeq(s, a, b)

Signed(s) == s # <<>> /\ s[1] \in {"-", "+"}
Unsigned(s) == IF Signed(s) THEN Tail(s) ELSE s
SignOf(s) == IF s # <<>> /\ s[1] = "-" THEN -1 ELSE 1

RECURSIVE Pow10(_)
Pow10(n) == IF n = 0 THEN 1 ELSE 10 * Pow10(n - 1)

\* the number a string of digits denotes: the sum of digit * 10^place
RECURSIVE DigitSum(_, _)
DigitSum(d, i) ==
    IF i > Len(d) THEN 0
    ELSE DigitVal(d[i]) * Pow10(Len(d) - i) + DigitSum(d, i + 1)

AllDigits(d) == \A i \in 1..Len(d) : d[i] \in Digits

\* an integer literal: an optional sign and one or more digits
IsIntLiteral(s) ==
    LET d == Unsigned(Trimmed(s)) IN d # <<>> /\ AllDigits(d)
IntLiteralValue(s) ==
    SignOf(Trimmed(s)) * DigitSum(Unsigned(Trimmed(s)), 1)

\* a decimal literal: an optional sign, digits around at most one point,
\* at least one digit
NoPoint(d) == SelectSeq(d, LAMBDA c : c # ".")
Points(d) == Len(d) - Len(NoPoint(d))
IsFloatLiteral(s) ==
    LET d == Unsigned(Trimmed(s)) IN
    NoPoint(d) # <<>> /\ AllDigits(NoPoint(d)) /\ Points(d) <= 1
\* the digits after the point
Places(d) ==
    IF Points(d) = 0 THEN 0
    ELSE Len(d) - (CHOOSE i \in 1..Len(d) : d[i] = ".")
\* r is the float the literal s denotes
IsFloatOf(r, s) ==
    LET d == Unsigned(Trimmed(s))
        m == SignOf(Trimmed(s)) * DigitSum(NoPoint(d), 1)
    IN /\ r.kind = "float"
       /\ r.val[2] \in 0..Places(d)
       /\ r.val[1] * Pow10(Places(d) - r.val[2]) = m
       /\ r.val[2] = 0 \/ r.val[1] % 10 # 0

\* C5: __get_dict_value returns a value for every raw value, by a fixed
\* priority: "true" gives True, "false" gives False, "null" or None (the key
\* absent and no other default) gives None, otherwise an integer literal
\* gives that integer, otherwise a float literal gives that float, and every
\* other string (and every other value) is returned as it is.
C5_DictValuePriority ==
    dvOut # <<>> =>
        LET value == IF dvIn = <<>> THEN dvDefault ELSE dvIn[1]
            r == dvOut[1]
        IN IF value.kind = "None" THEN r = PyNone
           ELSE IF value.kind # "str" THEN r = value
           ELSE IF value.val = StrTrue THEN r = PyBool(TRUE)
           ELSE IF value.val = StrFalse THEN r = PyBool(FALSE)
           ELSE IF value.val = StrNull THEN r = PyNone
           ELSE IF IsIntLiteral(value.val)
                THEN r = PyInt(IntLiteralValue(value.val))
           ELSE IF IsFloatLiteral(value.val) THEN IsFloatOf(r, value.val)
           ELSE r = value

\* the float literal "1.1" was read as the float 1.1
C5_Witness ==
    /\ dvIn = <<PyStr(<<"1", ".", "1">>)>>
    /\ dvOut = <<PyFloat(11, 1)>>

-----------------------------------------------------------------------------
(* Properties of __get_image_urls (under SpecImageUrls) *)

ImgPrimary == IF <<"maxImageUrl">> \in DOMAIN imgRaw
              THEN imgRaw[<<"maxImageUrl">>].val ELSE <<>>
ImgFallback == IF <<"displayImgUrl">> \in DOMAIN imgRaw
               THEN imgRaw[<<"displayImgUrl">>].val ELSE <<>>

\* the positions both lists have at which not both values are empty
ImgKept ==
    {i \in 1..Len(ImgPrimary) :
        i <= Len(ImgFallback) /\ ~(ImgPrimary[i] = <<>> /\ ImgFallback[i] = <<>>)}
\* the place of kept position i in the output
ImgRank(i) == Cardinality({j \in ImgKept : j <= i})
\* the value the claim picks at position i, decoded
ImgDecoded(i) ==
    JsonLoadsQuoted(IF ImgPrimary[i] = StrNull THEN ImgFallback[i]
                    ELSE ImgPrimary[i], <<>>)

\* C6: whenever __get_image_urls returns, it returns one decoded URL for
\* each position of the shorter list at which not both values are empty, in
\* position order: the primary value unless that is literally "null", then
\* the fallback value.  It raises exactly when a picked value is no valid
\* escaped-string literal.
C6_ImageUrlsZip ==
    imgOut # <<>> =>
        LET o == imgOut[1] IN
        /\ o.kind = "raise" <=> \E i \in ImgKept : ImgDecoded(i) = <<>>
        /\ o.kind = "ok" =>
              /\ Len(o.val) = Cardinality(ImgKept)
              /\ \A i \in ImgKept : o.val[ImgRank(i)] = ImgDecoded(i)[1]

\* primary ["url1", "null"] and fallback ["", "url2"] gave ["url1", "url2"]
C6_Witness ==
    /\ ImgPrimary = <<<<"url1">>, StrNull>>
    /\ ImgFallback = <<<<>>, <<"url2">>>>
    /\ imgOut = <<Return(<<<<"url1">>, <<"url2">>>>)>>

-----------------------------------------------------------------------------
(* Properties of __get_embedded_json (under SpecJson) *)

\* the key and the value an assignment node gives
FieldKey(a) == Strip(ValueOrEmpty(a.left), Q)
FieldValue(a) == Strip(ValueOrEmpty(a.right), Q)

IsMarkerCall(st) == st.type = "FunctionCall" /\ st.identifier = MarkerCallee

\* the assignments of all marker calls of the parsed scripts, in document
\* order
RECURSIVE StmtAssigns(_)
StmtAssigns(stmts) ==
    IF stmts = <<>> THEN <<>>
    ELSE (IF IsMarkerCall(Head(stmts)) THEN Head(stmts).args ELSE <<>>)
             \o StmtAssigns(Tail(stmts))
RECURSIVE MarkerAssigns(_)
MarkerAssigns(scripts) ==
    IF scripts = <<>> THEN <<>>
    ELSE (IF Head(scripts).kind = "ok" THEN StmtAssigns(Head(scripts).stmts)
          ELSE <<>>) \o MarkerAssigns(Tail(scripts))

\* one step of the fold: append to a multi-valued key, overwrite any other
FoldStep(map, a) ==
    LET k == FieldKey(a) IN
    IF k \in auction_duplicates
    THEN DictSet(map, k, PyList((IF k \in DOMAIN map THEN map[k].val ELSE <<>>)
                                    \o <<FieldValue(a)>>))
    ELSE DictSet(map, k, PyStr(FieldValue(a)))

RECURSIVE FoldAssigns(_, _)
FoldAssigns(as, map) ==
    IF as = <<>> THEN map ELSE FoldAssigns(Tail(as), FoldStep(map, Head(as)))

ExpectedFields(s) == FoldAssigns(MarkerAssigns(s.scripts), EmptyDict)

JsonReturned == jsonOut # <<>> /\ jsonOut[1].kind = "ok"

\* C2: the RawFieldMap __get_embedded_json returns is the fold, over the
\* assignments of all marker calls in document order, of: append the value
\* to a multi-valued key's sequence, overwrite any other key's value.
C2_MergeIsFold == JsonReturned => jsonOut[1].val = ExpectedFields(soup)

MaxX(x) == Assign(Node("String", <<Q, "maxImageUrl", Q>>),
                  Node("String", <<Q, x, Q>>))

\* two marker calls set maxImageUrl to x1 then x2, after "it" was written
\* twice: the sequence is [x1, x2] and "it" holds the last value written
C2_Witness ==
    /\ JsonReturned
    /\ Len(soup.scripts) = 1 /\ soup.scripts[1].kind = "ok"
    /\ Len(soup.scripts[1].stmts) = 2
    /\ \A i \in 1..2 : IsMarkerCall(soup.scripts[1].stmts[i])
    /\ soup.scripts[1].stmts[1].args = <<MaxX("x1")>>
    /\ soup.scripts[1].stmts[2].args = <<MaxX("x2")>>
    /\ jsonOut[1].val[<<"maxImageUrl">>] = PyList(<<<<"x1">>, <<"x2">>>>)

ScriptKindsOf(s) == {s.scripts[i].kind : i \in 1..Len(s.scripts)}
ParsedStmts(s) ==
    UNION {{s.scripts[i].stmts[j] : j \in 1..Len(s.scripts[i].stmts)} :
              i \in {k \in 1..Len(s.scripts) : s.scripts[k].kind = "ok"}}
\* every operand of every assignment in a marker call has text
MarkerOperandsAreText(s) ==
    \A st \in ParsedStmts(s) :
        IsMarkerCall(st) =>
            \A i \in 1..Len(st.args) :
                ~HasNodeValue(st.args[i].left) /\ ~HasNodeValue(st.args[i].right)
\* every callee is a plain identifier
CalleesAreIdentifiers(s) ==
    \A st \in ParsedStmts(s) :
        st.type = "FunctionCall" => st.identifier.type = "Identifier"

\* C3 as claimed: a marker script that fails to parse is skipped, no
\* exception escapes and the fields of the other scripts are returned.
C3_BadScriptSkipped ==
    (/\ jsonOut # <<>>
     /\ "bad" \in ScriptKindsOf(soup)
     /\ MarkerOperandsAreText(soup) /\ CalleesAreIdentifiers(soup))
        => JsonReturned /\ jsonOut[1].val = ExpectedFields(soup)

\* C9 as claimed: once a call for the document has returned, every later
\* call (no clear in between) is a cache hit that parses no script.
C9_LaterCallsHit ==
    (jsonOut # <<>> /\ jsonRan) => JsonReturned /\ jsonParsed = 0

\* C10 as claimed: in scripts that parse, calls whose callee is not the
\* identifier $rwidgets are ignored: the walk completes and the fields are
\* those of the marker calls alone.
C10_OtherCalleesIgnored ==
    (/\ jsonOut # <<>>
     /\ "bad" \notin ScriptKindsOf(soup)
     /\ MarkerOperandsAreText(soup)
     /\ \E st \in ParsedStmts(soup) :
            st.type = "FunctionCall" /\ st.identifier # MarkerCallee)
        => JsonReturned /\ jsonOut[1].val = ExpectedFields(soup)

-----------------------------------------------------------------------------
(* Properties of __parse_auction_soup (under SpecAuction) *)

\* the marker call of the auction page sets the field
HasField(key) ==
    \E i \in 1..Len(soup.scripts[1].stmts[1].args) :
        FieldKey(soup.scripts[1].stmts[1].args[i]) = key

\* C4 as claimed: the assembly returns a record for every RawFieldMap, a
\* value that cannot be coerced giving null or the default.
C4_AssemblyNeverRaises == auctionOut # <<>> => auctionOut[1].kind = "ok"

\* C8 as claimed: the bid count and the quantity of a returned record are
\* integers, 0 and 1 when the raw field is absent.
C8_CountsAreIntegers ==
    (auctionOut # <<>> /\ auctionOut[1].kind = "ok") =>
        LET r == auctionOut[1].val IN
        /\ r.n_bids.kind = "int" /\ r.quantity.kind = "int"
        /\ ~HasField(<<"bids">>) => r.n_bids = PyInt(0)
        /\ ~HasField(<<"totalQty">>) => r.quantity = PyInt(1)

=============================================================================
